---- MODULE Spec2Model ----
(***************************************************************************)
(* Model of registration/backends/manual/__init__.py: the ManualActivation *)
(* registration backend.  Every request is one call of one backend method; *)
(* register and activate are split at the points where they call a         *)
(* collaborator, so that calls of different requests interleave.           *)
(***************************************************************************)
EXTENDS Integers, Sequences, FiniteSets, TLC

VARIABLES
    module_names,   \* names bound in the module's global namespace
    settings,       \* django.conf.settings: option name -> value
    users,          \* Account Directory: username -> User record
    profiles,       \* Account Directory: username -> RegistrationProfile
    user_mails,     \* activation mails create_inactive_user sent to users
    notifications,  \* users handed to send_new_user_notification, in order
    events,         \* signals sent, in order
    pc,             \* request -> position in its call
    op,             \* request -> the method it called
    args,           \* request -> the arguments of the call
    new_user,       \* request -> register's local new_user
    activated,      \* request -> activate's local activated
    result          \* request -> what the call returned or raised

vars == <<module_names, settings, users, profiles, user_mails, notifications,
          events, pc, op, args, new_user, activated, result>>

storage == <<users, profiles, user_mails, notifications, events>>

----------------------------------------------------------------------------
(* Bounds and input sets *)

NumRequests == 3
Requests == 1..NumRequests

Usernames == {"alice", "bob"}
Emails == {"a@example.org"}
Passwords == {"pw"}

None == "None"
False == "False"
True == "True"
Unset == "<unset>"

\* The key the Account Directory issues to a username, and the keys a caller
\* may present: a key is unknown to the directory until its user registers.
KeyOf(username) == IF username = "alice" THEN "key-alice" ELSE "key-bob"
UsedKey == "ALREADY_ACTIVATED"
ActivationKeys == {KeyOf(u) : u \in Usernames}

----------------------------------------------------------------------------
(* The module namespace and the settings object *)

\* Lines 1-8: the names the module binds.
ShippedNames ==
    {"settings", "RequestSite", "Site", "signals", "RegistrationForm",
     "RegistrationProfile", "ManualActivation"}

\* Line 53 calls a name the module never binds ("you would write this
\* function"); a deployment that wrote it has it bound.
NotifierName == "send_new_user_notification"

\* Line 97 returns a name the module never binds.
FormName == "RegistrationAndProfileForm"

\* Python's lookup of a global name: bound, or NameError.
NameBound(names, name) == name \in names

SettingNames == {"REGISTRATION_OPEN", "VENDOR_REGISTRATION_OPEN"}
SettingValues == {Unset, True, False}

\* getattr(settings, name, default)
getattr(s, name, default) == IF s[name] = Unset THEN default ELSE s[name]

\* Mutant: sender=RegistrationProfile in place of sender=self.__class__.
BackendClass_wrong_sender == "RegistrationProfile"

\* self.__class__
BackendClass == "ManualActivation"

----------------------------------------------------------------------------
(* Return values *)

Returned(v) == [kind |-> "return", val |-> v]
Raised(e) == [kind |-> "raise", val |-> e]
NoResult == [kind |-> "none", val |-> None]

NoArgs == [username |-> None, email |-> None, password |-> None,
           activation_key |-> None]

----------------------------------------------------------------------------
(* Account Directory: RegistrationProfile.objects *)

UserExists(us, username) == username \in DOMAIN us

\* create_inactive_user: the new User, inactive.
CreateUser(us, username, email) ==
    [u \in DOMAIN us \cup {username} |->
        IF u = username THEN [is_active |-> FALSE, email |-> email] ELSE us[u]]

\* create_inactive_user: the new RegistrationProfile, with a fresh key.
CreateProfile(ps, username) ==
    [u \in DOMAIN ps \cup {username} |->
        IF u = username
        THEN [activation_key |-> KeyOf(username), expired |-> FALSE]
        ELSE ps[u]]

\* create_inactive_user: the activation mail to the user, when asked for.
ActivationMail(mails, username, site, send_email) ==
    IF send_email THEN Append(mails, [user |-> username, site |-> site])
    ELSE mails

\* activate_user: the profiles a key activates (valid, unexpired, unused).
Activatable(ps, key) ==
    {u \in DOMAIN ps : ps[u].activation_key = key /\ ~ps[u].expired}

\* activate_user: the User, or False.
activate_user_result(ps, key) ==
    IF Activatable(ps, key) = {} THEN False
    ELSE CHOOSE u \in Activatable(ps, key) : TRUE

activate_user_users(us, ps, key) ==
    [u \in DOMAIN us |->
        IF u \in Activatable(ps, key) /\ u = activate_user_result(ps, key)
        THEN [us[u] EXCEPT !.is_active = TRUE] ELSE us[u]]

activate_user_profiles(ps, key) ==
    [u \in DOMAIN ps |->
        IF u \in Activatable(ps, key) /\ u = activate_user_result(ps, key)
        THEN [ps[u] EXCEPT !.activation_key = UsedKey] ELSE ps[u]]

----------------------------------------------------------------------------
(* Event Bus: registration.signals *)

Event(signal, sender, user, request) ==
    [signal |-> signal, sender |-> sender, user |-> user, request |-> request]

\* Lines 54-56.
user_registered_send(ev, user, request) ==
    Append(ev, Event("user_registered", BackendClass, user, request))

\* Mutant: the send of lines 72-74 is done twice.
user_activated_send_twice(ev, user, request) ==
    Append(Append(ev, Event("user_activated", BackendClass, user, request)),
           Event("user_activated", BackendClass, user, request))

\* Lines 72-74.
user_activated_send(ev, user, request) ==
    Append(ev, Event("user_activated", BackendClass, user, request))

\* Mutant: "if activated is not None" in place of "if activated".
Truthy_not_none(v) == v # None

\* Line 71: if activated
Truthy(v) == v # False /\ v # None

----------------------------------------------------------------------------
Init ==
    /\ module_names \in {ShippedNames, ShippedNames \cup {NotifierName}}
    /\ settings \in [SettingNames -> SettingValues]
    /\ users = << >>
    /\ profiles = << >>
    /\ user_mails = << >>
    /\ notifications = << >>
    /\ events = << >>
    /\ pc = [r \in Requests |-> "idle"]
    /\ op = [r \in Requests |-> None]
    /\ args = [r \in Requests |-> NoArgs]
    /\ new_user = [r \in Requests |-> None]
    /\ activated = [r \in Requests |-> None]
    /\ result = [r \in Requests |-> NoResult]

\* Requests are numbered in their order of arrival: a request's call starts
\* once every earlier request's call has started.
Arrives(r) ==
    /\ pc[r] = "idle"
    /\ \A q \in Requests : q < r => pc[q] # "idle"

\* A call that returns or raises.
Finish(r, res) ==
    /\ pc' = [pc EXCEPT ![r] = "done"]
    /\ result' = [result EXCEPT ![r] = res]

\* Mutant: the duplicate error is caught and the call goes on with the
\* existing user.
Register_44_51_catches_duplicate(r) ==
    /\ Arrives(r)
    /\ \E username \in Usernames, email \in Emails, password \in Passwords,
          installed \in BOOLEAN :
        LET site == IF installed THEN "Site.objects.get_current"
                    ELSE "RequestSite"
        IN
        /\ op' = [op EXCEPT ![r] = "register"]
        /\ args' = [args EXCEPT ![r] = [NoArgs EXCEPT !.username = username,
                                          !.email = email,
                                          !.password = password]]
        /\ IF UserExists(users, username)
           THEN UNCHANGED <<users, profiles, user_mails>>
           ELSE /\ users' = CreateUser(users, username, email)
                /\ profiles' = CreateProfile(profiles, username)
                /\ user_mails' = ActivationMail(user_mails, username, site, FALSE)
        /\ new_user' = [new_user EXCEPT ![r] = username]
        /\ pc' = [pc EXCEPT ![r] = "reg_created"]
        /\ UNCHANGED result
    /\ UNCHANGED <<module_names, settings, notifications, events, activated>>

\* Mutant: the new user is made active at once, as a backend without an
\* activation step would.
Register_44_51_activates(r) ==
    /\ Arrives(r)
    /\ \E username \in Usernames, email \in Emails, password \in Passwords,
          installed \in BOOLEAN :
        LET site == IF installed THEN "Site.objects.get_current"
                    ELSE "RequestSite"
        IN
        /\ op' = [op EXCEPT ![r] = "register"]
        /\ args' = [args EXCEPT ![r] = [NoArgs EXCEPT !.username = username,
                                          !.email = email,
                                          !.password = password]]
        /\ IF UserExists(users, username)
           THEN /\ Finish(r, Raised("DuplicateUserError"))
                /\ UNCHANGED <<users, profiles, user_mails, new_user>>
           ELSE /\ users' = [CreateUser(users, username, email)
                                EXCEPT ![username].is_active = TRUE]
                /\ profiles' = CreateProfile(profiles, username)
                /\ user_mails' = ActivationMail(user_mails, username, site, FALSE)
                /\ new_user' = [new_user EXCEPT ![r] = username]
                /\ pc' = [pc EXCEPT ![r] = "reg_created"]
                /\ UNCHANGED result
    /\ UNCHANGED <<module_names, settings, notifications, events, activated>>

\* register, lines 44-51: read the arguments, resolve the site, create the
\* inactive user; a duplicate username raises out of create_inactive_user.
Register_44_51(r) ==
    /\ Arrives(r)
    /\ \E username \in Usernames, email \in Emails, password \in Passwords,
          installed \in BOOLEAN :
        LET site == IF installed THEN "Site.objects.get_current"
                    ELSE "RequestSite"
        IN
        /\ op' = [op EXCEPT ![r] = "register"]
        /\ args' = [args EXCEPT ![r] = [NoArgs EXCEPT !.username = username,
                                          !.email = email,
                                          !.password = password]]
        /\ IF UserExists(users, username)
           THEN /\ Finish(r, Raised("DuplicateUserError"))
                /\ UNCHANGED <<users, profiles, user_mails, new_user>>
           ELSE /\ users' = CreateUser(users, username, email)
                /\ profiles' = CreateProfile(profiles, username)
                /\ user_mails' = ActivationMail(user_mails, username, site, FALSE)
                /\ new_user' = [new_user EXCEPT ![r] = username]
                /\ pc' = [pc EXCEPT ![r] = "reg_created"]
                /\ UNCHANGED result
    /\ UNCHANGED <<module_names, settings, notifications, events, activated>>

\* Mutant: whatever line 53 raises is swallowed and the call goes on.
Register_53_swallows(r) ==
    /\ pc[r] = "reg_created"
    /\ IF ~NameBound(module_names, NotifierName)
       THEN UNCHANGED notifications
       ELSE \/ notifications' = Append(notifications, new_user[r])
            \/ UNCHANGED notifications
    /\ pc' = [pc EXCEPT ![r] = "reg_notified"]
    /\ UNCHANGED <<module_names, settings, users, profiles, user_mails, events,
                   op, args, new_user, activated, result>>

\* register, line 53: send_new_user_notification(new_user).  The name is
\* looked up when the line runs; the notifier itself may raise.
Register_53(r) ==
    /\ pc[r] = "reg_created"
    /\ IF ~NameBound(module_names, NotifierName)
       THEN /\ Finish(r, Raised("NameError"))
            /\ UNCHANGED notifications
       ELSE \/ /\ notifications' = Append(notifications, new_user[r])
               /\ pc' = [pc EXCEPT ![r] = "reg_notified"]
               /\ UNCHANGED result
            \/ /\ Finish(r, Raised("NotificationError"))
               /\ UNCHANGED notifications
    /\ UNCHANGED <<module_names, settings, users, profiles, user_mails, events,
                   op, args, new_user, activated>>

\* register, lines 54-57: send user_registered, return new_user.
Register_54_57(r) ==
    /\ pc[r] = "reg_notified"
    /\ events' = user_registered_send(events, new_user[r], r)
    /\ Finish(r, Returned(new_user[r]))
    /\ UNCHANGED <<module_names, settings, users, profiles, user_mails,
                   notifications, op, args, new_user, activated>>

\* activate, line 70: activate_user(activation_key), one atomic update.
Activate_70(r) ==
    /\ Arrives(r)
    /\ \E key \in ActivationKeys :
        /\ op' = [op EXCEPT ![r] = "activate"]
        /\ args' = [args EXCEPT ![r] = [NoArgs EXCEPT !.activation_key = key]]
        /\ activated' = [activated EXCEPT ![r] = activate_user_result(profiles, key)]
        /\ users' = activate_user_users(users, profiles, key)
        /\ profiles' = activate_user_profiles(profiles, key)
    /\ pc' = [pc EXCEPT ![r] = "act_called"]
    /\ UNCHANGED <<module_names, settings, user_mails, notifications, events,
                   new_user, result>>

\* activate, lines 71-75: send user_activated if activated, return activated.
Activate_71_75(r) ==
    /\ pc[r] = "act_called"
    /\ events' = IF Truthy(activated[r])
                 THEN user_activated_send(events, activated[r], r)
                 ELSE events
    /\ Finish(r, Returned(activated[r]))
    /\ UNCHANGED <<module_names, settings, users, profiles, user_mails,
                   notifications, op, args, new_user, activated>>

\* Mutant: the default of the getattr is False.
registration_allowed_default_closed(s) ==
    getattr(s, "VENDOR_REGISTRATION_OPEN", False)

\* registration_allowed, line 90.
registration_allowed(s) == getattr(s, "VENDOR_REGISTRATION_OPEN", True)

RegistrationAllowed(r) ==
    /\ Arrives(r)
    /\ op' = [op EXCEPT ![r] = "registration_allowed"]
    /\ Finish(r, Returned(registration_allowed(settings)))
    /\ UNCHANGED <<module_names, settings, users, profiles, user_mails,
                   notifications, events, args, new_user, activated>>

\* get_form_class, line 97.
get_form_class(names) ==
    IF NameBound(names, FormName) THEN Returned(FormName)
    ELSE Raised("NameError")

GetFormClass(r) ==
    /\ Arrives(r)
    /\ op' = [op EXCEPT ![r] = "get_form_class"]
    /\ Finish(r, get_form_class(module_names))
    /\ UNCHANGED <<module_names, settings, users, profiles, user_mails,
                   notifications, events, args, new_user, activated>>

\* Mutant: the user is passed on as a positional argument of the route.
post_registration_redirect_with_user(request, user) ==
    <<"registration_complete", <<user>>, << >> >>

\* post_registration_redirect, line 105.
post_registration_redirect(request, user) ==
    <<"registration_complete", << >>, << >> >>

\* post_activation_redirect, line 113.
post_activation_redirect(request, user) ==
    <<"registration_actication_complete", << >>, << >> >>

\* The user passed is any user or False; the method never reads it.
PostRegistrationRedirect(r) ==
    /\ Arrives(r)
    /\ \E user \in Usernames \cup {False} :
        Finish(r, Returned(post_registration_redirect(r, user)))
    /\ op' = [op EXCEPT ![r] = "post_registration_redirect"]
    /\ UNCHANGED <<module_names, settings, users, profiles, user_mails,
                   notifications, events, args, new_user, activated>>

PostActivationRedirect(r) ==
    /\ Arrives(r)
    /\ \E user \in Usernames \cup {False} :
        Finish(r, Returned(post_activation_redirect(r, user)))
    /\ op' = [op EXCEPT ![r] = "post_activation_redirect"]
    /\ UNCHANGED <<module_names, settings, users, profiles, user_mails,
                   notifications, events, args, new_user, activated>>

\* Account Directory: an unused activation key runs out of time.
ExpireKey(u) ==
    /\ u \in DOMAIN profiles
    /\ ~profiles[u].expired
    /\ profiles[u].activation_key # UsedKey
    /\ profiles' = [profiles EXCEPT ![u].expired = TRUE]
    /\ UNCHANGED <<module_names, settings, users, user_mails, notifications,
                   events, pc, op, args, new_user, activated, result>>

Next ==
    \/ \E r \in Requests : Register_44_51(r)
    \/ \E r \in Requests : Register_53(r)
    \/ \E r \in Requests : Register_54_57(r)
    \/ \E r \in Requests : Activate_70(r)
    \/ \E r \in Requests : Activate_71_75(r)
    \/ \E r \in Requests : RegistrationAllowed(r)
    \/ \E r \in Requests : GetFormClass(r)
    \/ \E r \in Requests : PostRegistrationRedirect(r)
    \/ \E r \in Requests : PostActivationRedirect(r)
    \/ \E u \in Usernames : ExpireKey(u)

Spec == Init /\ [][Next]_vars

----------------------------------------------------------------------------
(* Vocabulary of the properties *)

\* A user's status in the Account Directory.
Status(u) ==
    IF ~UserExists(users, u) THEN "nonexistent"
    ELSE IF users[u].is_active THEN "active" ELSE "inactive"

\* The events of one signal that carry request r.
EventsOf(ev, r, signal) ==
    {i \in 1..Len(ev) : ev[i].request = r /\ ev[i].signal = signal}

\* The notifications sent about one user.
NotificationsOf(ns, u) == {i \in 1..Len(ns) : ns[i] = u}

\* Request r's call of method o starts in this step.
Starts(r, o) == pc[r] = "idle" /\ pc'[r] # "idle" /\ op'[r] = o

\* Request r's call of method o is over.
Done(r, o) == pc[r] = "done" /\ op[r] = o

----------------------------------------------------------------------------
\* C1: register with a valid (username, email, password) whose username does
\* not yet exist completes without error: the user and its profile exist,
\* exactly one admin notification was sent about the user, exactly one
\* user_registered event carrying the user and this request was published,
\* and the call returned the created user.  (new_user is set exactly when
\* the username did not exist; a notifier that itself fails is set aside.)
C1_RegisterCompletes ==
    \A r \in Requests :
        (/\ Done(r, "register")
         /\ new_user[r] # None
         /\ result[r] # Raised("NotificationError"))
        => /\ result[r] = Returned(new_user[r])
           /\ UserExists(users, new_user[r])
           /\ new_user[r] \in DOMAIN profiles
           /\ Cardinality(NotificationsOf(notifications, new_user[r])) = 1
           /\ Cardinality(EventsOf(events, r, "user_registered")) = 1
           /\ \A i \in EventsOf(events, r, "user_registered") :
                  events[i].user = new_user[r]

\* C2: register with a username that already exists raises the Account
\* Directory's duplicate error to the caller in that very step, and the
\* call leaves users, profiles, mails, notifications and events as they
\* were; no event ever carries that request.
C2_DuplicatePropagates ==
    [][\A r \in Requests :
        /\ (Starts(r, "register") /\ UserExists(users, args'[r].username))
           => /\ pc'[r] = "done"
              /\ result'[r] = Raised("DuplicateUserError")
              /\ UNCHANGED storage
        /\ (Done(r, "register")' /\ result'[r] = Raised("DuplicateUserError"))
           => /\ EventsOf(events', r, "user_registered") = {}
              /\ new_user'[r] = None
      ]_vars

C2_Witness ==
    \E r \in Requests :
        /\ Done(r, "register")
        /\ result[r] = Raised("DuplicateUserError")
        /\ UserExists(users, args[r].username)
        /\ \E q \in Requests : q < r /\ new_user[q] = args[r].username

\* C3: activate with a valid, unexpired, unused key flips that key's user
\* from inactive to active; the call returns exactly the user activate_user
\* gave and publishes exactly one user_activated event, carrying that user
\* and the request, sent by the backend class.
C3_ActivateValidKey ==
    [][\A r \in Requests :
        /\ (Starts(r, "activate")
            /\ Activatable(profiles, args'[r].activation_key) # {})
           => \E u \in Activatable(profiles, args'[r].activation_key) :
                /\ ~users[u].is_active
                /\ users'[u].is_active
                /\ activated'[r] = u
        /\ (pc[r] = "act_called" /\ pc'[r] # "act_called"
            /\ Truthy(activated[r]))
           => /\ pc'[r] = "done"
              /\ result'[r] = Returned(activated[r])
              /\ events' = Append(events,
                     Event("user_activated", "ManualActivation", activated[r], r))
        /\ (Done(r, "activate")' /\ Truthy(activated'[r]))
           => /\ Cardinality(EventsOf(events', r, "user_activated")) = 1
              /\ users'[activated'[r]].is_active
      ]_vars

C3_Witness ==
    \E r \in Requests, u \in Usernames :
        /\ Done(r, "activate")
        /\ args[r].activation_key = KeyOf(u)
        /\ result[r] = Returned(u)
        /\ users[u].is_active
        /\ \E i \in 1..Len(events) :
               events[i] = Event("user_activated", "ManualActivation", u, r)

\* No profile holds the key: it was never issued, or it was used up.
UnknownOrUsed(ps, key) == \A u \in DOMAIN ps : ps[u].activation_key # key

\* Some other call of activate with the same key got a user.
KeyUsedByAnother(r) ==
    \E q \in Requests :
        /\ q # r
        /\ op[q] = "activate"
        /\ args[q].activation_key = args[r].activation_key
        /\ Truthy(activated[q])

\* C4: activate with an unknown key, or with a key an earlier activate call
\* already used successfully, changes no user, gets the Account Directory's
\* falsy value, returns it without raising, and publishes no event.
C4_ActivateBadKey ==
    [][\A r \in Requests :
        /\ (Starts(r, "activate")
            /\ UnknownOrUsed(profiles, args'[r].activation_key))
           => /\ activated'[r] = False
              /\ users' = users
              /\ profiles' = profiles
        /\ (pc[r] = "act_called" /\ pc'[r] # "act_called"
            /\ ~Truthy(activated[r]))
           => /\ pc'[r] = "done"
              /\ result'[r] = Returned(activated[r])
              /\ events' = events
              /\ users' = users
        /\ (Done(r, "activate")' /\ KeyUsedByAnother(r)')
           => /\ result'[r] = Returned(False)
              /\ EventsOf(events', r, "user_activated") = {}
      ]_vars

C4_Witness ==
    \E q, r \in Requests, u \in Usernames :
        /\ q < r
        /\ Done(q, "activate") /\ Done(r, "activate")
        /\ args[q].activation_key = KeyOf(u)
        /\ args[r].activation_key = KeyOf(u)
        /\ result[q] = Returned(u)
        /\ result[r] = Returned(False)
        /\ Cardinality({i \in 1..Len(events) :
               events[i].signal = "user_activated"}) = 1

Winners(key) ==
    {r \in Requests : /\ op[r] = "activate"
                      /\ args[r].activation_key = key
                      /\ Truthy(activated[r])}

\* C6: however activate calls with the same key interleave, at most one of
\* them gets a user and every other one gets and returns the falsy value,
\* and at most one user_activated event is ever published for the key.
C6_AtMostOncePerKey ==
    \A key \in ActivationKeys :
        /\ Cardinality(Winners(key)) <= 1
        /\ \A r \in Requests :
               (op[r] = "activate" /\ args[r].activation_key = key
                /\ r \notin Winners(key))
               => /\ activated[r] = False
                  /\ pc[r] = "done" => result[r] = Returned(False)
        /\ Cardinality({i \in 1..Len(events) :
               /\ events[i].signal = "user_activated"
               /\ args[events[i].request].activation_key = key}) <= 1

C6_Witness ==
    \E q, r \in Requests, u \in Usernames :
        /\ q # r
        /\ pc[q] = "act_called" /\ pc[r] = "act_called"
        /\ args[q].activation_key = KeyOf(u)
        /\ args[r].activation_key = KeyOf(u)
        /\ activated[q] = u
        /\ activated[r] = False

\* C7: a user's status changes only from nonexistent to inactive, in the
\* step in which a register call for that username starts, and from
\* inactive to active, in the step in which an activate call with that
\* user's key starts; an active user stays active.
C7_LegalTransitions ==
    [][\A u \in Usernames :
        Status(u)' # Status(u)
        => \/ /\ Status(u) = "nonexistent"
              /\ Status(u)' = "inactive"
              /\ \E r \in Requests :
                     Starts(r, "register") /\ args'[r].username = u
           \/ /\ Status(u) = "inactive"
              /\ Status(u)' = "active"
              /\ \E r \in Requests :
                     /\ Starts(r, "activate")
                     /\ args'[r].activation_key = profiles[u].activation_key
      ]_vars

C7_Witness ==
    \E q, r \in Requests, u \in Usernames :
        /\ new_user[q] = u
        /\ activated[r] = u
        /\ Status(u) = "active"
        /\ \E v \in Usernames : Status(v) = "inactive"

\* C8: get_form_class returns, for every request and in every state, the
\* same reference to the registration form, and raises nothing.
C8_FormClassReturned ==
    \A r \in Requests :
        Done(r, "get_form_class")
        => /\ result[r].kind = "return"
           /\ \A q \in Requests :
                  Done(q, "get_form_class") => result[q] = result[r]

Redirects == {"post_registration_redirect", "post_activation_redirect"}

\* C9: post_registration_redirect and post_activation_redirect each return a
\* triple of a route name, no positional and no keyword arguments, the same
\* for every request and user, in one step that changes no user, profile,
\* notification or event.
C9_FixedRedirects ==
    [][\A r \in Requests, o \in Redirects :
        Starts(r, o)
        => /\ pc'[r] = "done"
           /\ result'[r].kind = "return"
           /\ Len(result'[r].val) = 3
           /\ result'[r].val[2] = << >>
           /\ result'[r].val[3] = << >>
           /\ \A q \in Requests : Done(q, o) => result[q] = result'[r]
           /\ UNCHANGED storage
      ]_vars

C9_Witness ==
    \E p, r \in Requests :
        /\ Done(p, "post_registration_redirect")
        /\ Done(r, "post_activation_redirect")
        /\ result[p].val[2] = << >>
        /\ result[r].val[3] = << >>
        /\ users # << >>

\* C10: within a register call the user is created, then the notification
\* is sent, then user_registered is published: a notification is sent only
\* about a user already created, an event is published only for a call
\* whose notification was already sent; when the notification step fails
\* the call raises, publishes nothing, and the created user and profile
\* stay in storage.
C10_RegisterOrder ==
    [][\A r \in Requests :
        /\ (EventsOf(events', r, "user_registered")
                # EventsOf(events, r, "user_registered"))
           => /\ pc[r] = "reg_notified"
              /\ NotificationsOf(notifications, new_user[r]) # {}
              /\ UserExists(users, new_user[r])
        /\ (pc[r] = "reg_created" /\ pc'[r] = "reg_notified")
           => /\ UserExists(users, new_user[r])
              /\ notifications' = Append(notifications, new_user[r])
              /\ events' = events
        /\ (notifications' # notifications)
           => \E q \in Requests :
                  pc[q] = "reg_created" /\ pc'[q] = "reg_notified"
        /\ (pc[r] = "reg_created" /\ pc'[r] = "done")
           => /\ result'[r].kind = "raise"
              /\ UNCHANGED storage
              /\ UserExists(users', new_user[r])
              /\ new_user[r] \in DOMAIN profiles'
        /\ (Done(r, "register")' /\ result'[r].kind = "raise")
           => EventsOf(events', r, "user_registered") = {}
      ]_vars

C10_Witness ==
    \E q, r \in Requests :
        /\ Done(q, "register") /\ Done(r, "register")
        /\ result[q] = Raised("NotificationError")
        /\ UserExists(users, new_user[q])
        /\ new_user[q] \in DOMAIN profiles
        /\ NotificationsOf(notifications, new_user[q]) = {}
        /\ EventsOf(events, q, "user_registered") = {}
        /\ result[r] = Returned(new_user[r])
        /\ NotificationsOf(notifications, new_user[r]) # {}
        /\ EventsOf(events, r, "user_registered") # {}

====
